---- MODULE Spec2Model ----
(***************************************************************************)
(* anat_seg: a command-line front end (proc) and two linear pipelines      *)
(* (_seg, _neo_seg) that sequence external FSL / ANTs tools.               *)
(*                                                                         *)
(* A path is a sequence of string tokens, e.g.                             *)
(*   << "/out/", "anat_brain", ".nii", ".gz" >>                            *)
(* so that suffix stripping and suffix appending are computed, not         *)
(* assumed.  None is the empty sequence; an optional number n is << n >>.  *)
(* Fractional intensities are kept in tenths (3 is 0.3).                   *)
(***************************************************************************)
EXTENDS Integers, Sequences, FiniteSets, TLC

VARIABLES
    entry,      \* "cli": started through proc(); "lib": segmentation() called directly
    argv,       \* the parsed command line options (dest names of arg_parser)
    args,       \* the keyword arguments segmentation() receives
    pc,         \* position of the run
    files,      \* paths that exist on disk
    badImages,  \* existing paths that do not hold a valid image
    installed,  \* executables resolvable on the search path
    archive,    \* [present, inplace]: the bundled atlas archive and where it unpacks
    cmds,       \* external commands spawned so far, in order
    calls,      \* wrapper calls made by the pipeline so far, in order
    loc,        \* local variables of the pipeline function
    depth,      \* live frames of get_UNC_neonate_atlas
    err,        \* the exception that ended the run, NoErr otherwise
    ret,        \* value returned by segmentation()
    exitStatus, \* process exit status set by sys.exit / argparse, None while running
    stderrOut,  \* what the front end printed on the error stream
    logSink,    \* the log handed to the pipeline and the lines written through it
    maths,      \* the fslmaths object a caller is building, NoMaths before it exists
    runs,       \* two pipeline runs sharing one disk: each run's own state
    writer      \* the run that last wrote each file (files the runs wrote only)

vars == << entry, argv, args, pc, files, badImages, installed, archive, cmds,
           calls, loc, depth, err, ret, exitStatus, stderrOut, logSink, maths,
           runs, writer >>

None == << >>

Some(v) == << v >>

-----------------------------------------------------------------------------
(* Bounds of the model.                                                    *)

\* Frames of get_UNC_neonate_atlas the interpreter allows before RecursionError.
MaxRecursion == 3

\* Methods chained on one fslmaths object before run().
MaxChain == 2

\* Largest repeat count given to ero, fmean and fmedian.
MaxRepeat == 2

\* Largest class count given to fast() in a direct call.
MaxClasses == 11

-----------------------------------------------------------------------------
(* Program constants.                                                      *)

NeonateFracInt == 3
NeonateInType == 2
NeonateClasses == 5
DefaultFracInt == 5
DefaultInType == 1
DefaultClasses == 3
RoughFracInt == 1
FlirtDof == 12

-----------------------------------------------------------------------------
(* Paths.                                                                  *)

NiiGz == << ".nii", ".gz" >>

InDir == << "/in/" >>

OutDir == << "/out/" >>

AtlasDir == << "/atlas/" >>

\* WorkDir.join / TmpDir.join / os.path.join
Join(dir, name) == dir \o name

IsSuffix(s, p) ==
    /\ Len(s) <= Len(p)
    /\ SubSeq(p, Len(p) - Len(s) + 1, Len(p)) = s

IsPrefix(s, p) ==
    /\ Len(s) <= Len(p)
    /\ SubSeq(p, 1, Len(s)) = s

DropLast(p, n) == SubSeq(p, 1, Len(p) - n)

\* str.endswith('.nii.gz') or str.endswith('.nii')
EndsWithNii(p) == IsSuffix(NiiGz, p) \/ IsSuffix(<< ".nii" >>, p)

KnownExts == { NiiGz, << ".tar", ".gz" >>, << ".nii" >>, << ".gz" >>,
               << ".mat" >>, << ".log" >>, << ".txt" >> }

\* File.rm_ext: strips the longest recognised (compound) extension.
rm_ext(p) ==
    LET hits == { e \in KnownExts : IsSuffix(e, p) /\ Len(e) < Len(p) }
    IN  IF hits = {} THEN p
        ELSE LET e == CHOOSE e \in hits : \A o \in hits : Len(o) <= Len(e)
             IN  DropLast(p, Len(e))

DirTokens == { "/in/", "/out/", "/atlas/", "/cwd/", "tmp/", "UNC_infant_atlas_2020/",
               "atlas/", "templates/" }

RECURSIVE DirLen(_)
DirLen(p) == IF p # << >> /\ Head(p) \in DirTokens THEN 1 + DirLen(Tail(p)) ELSE 0

\* File.file_parts()[0]: the directory part of a path
DirOf(p) == SubSeq(p, 1, DirLen(p))

-----------------------------------------------------------------------------
(* Errors.                                                                 *)

NoErr == [type |-> "none", what |-> << >>]

Error(t, w) == [type |-> t, what |-> w]

\* What a wrapper call leaves behind: the exception (if any), the commands it
\* spawned, the files on disk afterwards and its return value.
Result(e, c, f, r) == [err |-> e, cmds |-> c, files |-> f, ret |-> r]

Failed(r) == r.err # NoErr

-----------------------------------------------------------------------------
(* File/Path guard.                                                        *)

\* NiiFile(src, assert_exists=True, validate_nifti=True): the exception raised,
\* NoErr when the path exists and holds an image.
NiiFile(src, fs) ==
    IF src \notin fs THEN Error("FileNotFoundError", src)
    ELSE IF src \in badImages THEN Error("InvalidNiftiFileError", src)
    ELSE NoErr

\* File(src, assert_exists=True)
File(src, fs) == IF src \in fs THEN NoErr ELSE Error("FileNotFoundError", src)

\* WorkDir(src).__enter__ creates the directory when it is absent.
WorkDir(dir, fs) == fs \cup { dir }

TmpDirOf(dir) == dir \o << "tmp/" >>

\* TmpDir.__exit__ on the normal path: the scratch directory and all in it go.
RmTmpDir(td, fs) == { f \in fs : ~IsPrefix(td, f) }

-----------------------------------------------------------------------------
(* External tools: the files each writes when it exits with status 0.      *)

UncAtlasName == << "UNC_infant_atlas_2020/" >>

Templates == UncAtlasName \o << "atlas/", "templates/" >>

\* What the bundled archive holds, relative to where it is unpacked.
ArchiveMembers ==
    { UncAtlasName } \cup
    { Templates \o << n >> \o NiiGz :
        n \in { "infant-neo-withSkull", "infant-neo-withCerebellum",
                "infant-neo-seg-gm", "infant-neo-seg-wm", "infant-neo-seg-csf" } }

RECURSIVE DecTokens(_)
DecTokens(n) ==
    LET digit == << "0", "1", "2", "3", "4", "5", "6", "7", "8", "9" >>
    IN  IF n < 10 THEN << digit[n + 1] >>
        ELSE DecTokens(n \div 10) \o << digit[(n % 10) + 1] >>

Pve(prefix, k) == prefix \o << "_pve_" >> \o DecTokens(k) \o NiiGz

Outputs(c) ==
    CASE c.exe = "bet" ->
           { c.out \o NiiGz } \cup
           (IF c.mask THEN { c.out \o << "_mask" >> \o NiiGz } ELSE {})
      [] c.exe = "fast" /\ c.bias ->
           { c.out \o << "_restore" >> \o NiiGz,
             c.out \o << "_bias_field" >> \o NiiGz }
      [] c.exe = "fast" /\ ~c.bias ->
           { Pve(c.out, k) : k \in 0 .. (c.classes - 1) } \cup
           { c.out \o << "_mixeltype" >> \o NiiGz,
             c.out \o << "_pveseg" >> \o NiiGz,
             c.out \o << "_seg" >> \o NiiGz }
      [] c.exe \in { "N4BiasFieldCorrection", "N4" } -> { c.out, c.bias_out }
      [] c.exe = "flirt" -> { c.out, c.omat } \ { None }
      [] c.exe = "fnirt" -> { c.iout, c.fout, c.cout } \ { None }
      [] c.exe \in { "convertwarp", "applywarp", "fslmaths" } -> { c.out }
      [] c.exe = "tar" ->
           IF archive.inplace
           THEN { AtlasDir \o f : f \in ArchiveMembers }
           ELSE { << "/cwd/" >> \o f : f \in ArchiveMembers }
      [] OTHER -> {}

-----------------------------------------------------------------------------
(* Command invoker.                                                        *)

\* Command.check_dependency(): is the leading executable on the search path
check_dependency(exe) == exe \in installed

DependencyError(exe) == Error("DependencyError", << exe >>)

\* The archive extractor reads its operand; every other tool's inputs were
\* validated by the wrapper before the spawn.
ExitsZero(c, st, fs) ==
    /\ c.exe \in installed
    /\ st = 0
    /\ c.exe = "tar" => c.file \in fs

\* Command.run(): spawn, block, raise when the exit status is not zero.
Run(c, st, fs) ==
    IF ExitsZero(c, st, fs)
    THEN Result(NoErr, << c >>, fs \cup Outputs(c), None)
    ELSE Result(Error("RuntimeError", << c.exe >>), << c >>, fs, None)

\* check_dependency() followed by run()
CheckedRun(c, st, fs) ==
    IF ~check_dependency(c.exe)
    THEN Result(DependencyError(c.exe), << >>, fs, None)
    ELSE Run(c, st, fs)

-----------------------------------------------------------------------------
(* Tool wrappers.  fs is the disk before the call; st, st1, st2 are the    *)
(* exit statuses the external tools of the call would end with.            *)

\* fsl/bet.py
bet(image, out, frac_int, mask, fs, st) ==
    IF NiiFile(image, fs) # NoErr
    THEN Result(NiiFile(image, fs), << >>, fs, None)
    ELSE LET o == IF EndsWithNii(out) THEN rm_ext(out) ELSE out
             mask_img == IF mask THEN o \o << "_mask" >> \o NiiGz ELSE None
             c == [exe |-> "bet", image |-> image, out |-> o,
                   frac |-> frac_int, mask |-> mask]
             r == Run(c, st, fs)
         IN  [r EXCEPT !.ret = << o \o NiiGz, mask_img >>]

\* NiiFile.copy / File.copy: the destination path, created on disk
Copy(src, dst, fs) == fs \cup { dst }

\* _fsl_biascorr with the scratch directory removed before its two images
\* are copied out of it.
_fsl_biascorr_NoCopy(image, out, fs, st) ==
    IF NiiFile(image, fs) # NoErr
    THEN Result(NiiFile(image, fs), << >>, fs, None)
    ELSE LET o == rm_ext(out)
             td == TmpDirOf(DirOf(out))
             fs1 == WorkDir(td, WorkDir(DirOf(out), fs))
             tmpout == Join(td, << "fast" >>)
             c == [exe |-> "fast", bias |-> TRUE, out |-> tmpout,
                   images |-> << image >>]
             r == CheckedRun(c, st, fs1)
             restore == o \o << "_restore" >> \o NiiGz
             biasfield == o \o << "_bias_field" >> \o NiiGz
         IN  IF Failed(r) THEN r
             ELSE [r EXCEPT !.files = RmTmpDir(td, r.files),
                            !.ret = << restore, biasfield >>]

\* biascorr.py, _fsl_biascorr
_fsl_biascorr(image, out, fs, st) ==
    IF NiiFile(image, fs) # NoErr
    THEN Result(NiiFile(image, fs), << >>, fs, None)
    ELSE LET o == rm_ext(out)
             td == TmpDirOf(DirOf(out))
             fs1 == WorkDir(td, WorkDir(DirOf(out), fs))
             tmpout == Join(td, << "fast" >>)
             c == [exe |-> "fast", bias |-> TRUE, out |-> tmpout,
                   images |-> << image >>]
             r == CheckedRun(c, st, fs1)
             tmp_restore == tmpout \o << "_restore" >> \o NiiGz
             tmp_biasfield == tmpout \o << "_bias_field" >> \o NiiGz
             restore == o \o << "_restore" >> \o NiiGz
             biasfield == o \o << "_bias_field" >> \o NiiGz
         IN  IF Failed(r) THEN r
             ELSE IF NiiFile(tmp_restore, r.files) # NoErr
             THEN [r EXCEPT !.err = NiiFile(tmp_restore, r.files)]
             ELSE IF NiiFile(tmp_biasfield, r.files) # NoErr
             THEN [r EXCEPT !.err = NiiFile(tmp_biasfield, r.files)]
             ELSE [r EXCEPT
                     !.files = RmTmpDir(td,
                                 Copy(tmp_biasfield, biasfield,
                                   Copy(tmp_restore, restore, r.files))),
                     !.ret = << restore, biasfield >>]

\* The two names N4 may be installed under, in the order they are probed.
N4Names == << "N4BiasFieldCorrection", "N4" >>

\* N4Command without the probe: the first name is used whether or not it
\* is resolvable.
N4Command_NoProbe == << N4Names[1] >>

\* _N4_biascorr, the dependency probe: the first resolvable name, None when
\* neither is resolvable
N4Command ==
    IF check_dependency(N4Names[1]) THEN << N4Names[1] >>
    ELSE IF check_dependency(N4Names[2]) THEN << N4Names[2] >>
    ELSE None

\* biascorr.py, _N4_biascorr
_N4_biascorr(image, out, fs, st1, st2) ==
    IF NiiFile(image, fs) # NoErr
    THEN Result(NiiFile(image, fs), << >>, fs, None)
    ELSE LET o == IF EndsWithNii(out) THEN rm_ext(out) ELSE out
             td == TmpDirOf(DirOf(out))
             fs1 == WorkDir(td, WorkDir(DirOf(out), fs))
             tmpout == Join(td, << "brain" >> \o NiiGz)
             b == bet(image, tmpout, RoughFracInt, TRUE, fs1, st1)
             mask == b.ret[2]
             tmp_rest == Join(td, << "restore" >> \o NiiGz)
             tmp_bias == Join(td, << "bias" >> \o NiiGz)
             restore == o \o << "_restore" >> \o NiiGz
             biasfield == o \o << "_bias_field" >> \o NiiGz
         IN  IF Failed(b) THEN [b EXCEPT !.ret = None]
             ELSE IF N4Command = None
             THEN Result(DependencyError(N4Names[1]), b.cmds, b.files, None)
             ELSE
               LET cmd == N4Command[1]
                   c == [exe |-> cmd, image |-> image, mask_in |-> mask,
                         out |-> tmp_rest, bias_out |-> tmp_bias]
                   r == Run(c, st2, b.files)
                   all == b.cmds \o r.cmds
               IN  IF Failed(r) THEN [r EXCEPT !.cmds = all]
                   ELSE IF NiiFile(tmp_rest, r.files) # NoErr
                   THEN Result(NiiFile(tmp_rest, r.files), all, r.files, None)
                   ELSE IF NiiFile(tmp_bias, r.files) # NoErr
                   THEN Result(NiiFile(tmp_bias, r.files), all, r.files, None)
                   ELSE Result(NoErr, all,
                               RmTmpDir(td,
                                 Copy(tmp_bias, biasfield,
                                   Copy(tmp_rest, restore, r.files))),
                               << restore, biasfield >>)

\* biascorr.py, biascorr
biascorr(image, out, N4, fs, st1, st2) ==
    IF N4 THEN _N4_biascorr(image, out, fs, st1, st2)
    ELSE _fsl_biascorr(image, out, fs, st1)

\* The first exception raised when the paths are validated in order.
RECURSIVE Validate(_, _)
Validate(paths, fs) ==
    IF paths = << >> THEN NoErr
    ELSE IF NiiFile(Head(paths), fs) # NoErr THEN NiiFile(Head(paths), fs)
    ELSE Validate(Tail(paths), fs)

\* Byte order of the characters that tell two matches of one glob apart:
\* '.' sorts before the digits, the digits before '_' and the letters; a
\* name that goes on with '_' where another ends in '.' sorts after it.
TokRank(t) ==
    CASE t \in { ".nii", ".gz" } -> 0
      [] t \in { "0", "1", "2", "3", "4", "5", "6", "7", "8", "9" } ->
           1 + CHOOSE d \in 0 .. 9 : DecTokens(d) = << t >>
      [] t = "_mixeltype_old" -> 12
      [] OTHER -> 11

RECURSIVE LexLess(_, _)
LexLess(p, q) ==
    IF q = << >> THEN FALSE
    ELSE IF p = << >> THEN TRUE
    ELSE IF Head(p) = Head(q) THEN LexLess(Tail(p), Tail(q))
    ELSE TokRank(Head(p)) < TokRank(Head(q))

\* list.sort() of a set of paths
RECURSIVE Sorted(_)
Sorted(S) ==
    IF S = {} THEN << >>
    ELSE LET m == CHOOSE x \in S : \A y \in S \ { x } : LexLess(x, y)
         IN  << m >> \o Sorted(S \ { m })

\* ' '.join(list of paths): the empty string, the path itself, or one string
\* holding all of them
RECURSIVE JoinPaths(_)
JoinPaths(ps) ==
    IF ps = << >> THEN << >>
    ELSE IF Len(ps) = 1 THEN ps[1]
    ELSE ps[1] \o << " " >> \o JoinPaths(Tail(ps))

\* glob(f"{out}_pve_*")
GlobPve(out, fs) == { f \in fs : IsPrefix(out \o << "_pve_" >>, f) }

MixelTokens == { "_mixeltype", "_mixeltype_old" }

\* glob(f"{out}_mixel*")
GlobMixel(out, fs) ==
    { f \in fs : /\ IsPrefix(out, f)
                 /\ Len(f) > Len(out)
                 /\ f[Len(out) + 1] \in MixelTokens }

\* fsl/fast.py
fast(images, out, intype, classes, priors, fs, st) ==
    IF Validate(images \o priors, fs) # NoErr
    THEN Result(Validate(images \o priors, fs), << >>, fs, None)
    ELSE LET o == rm_ext(out)
             c == [exe |-> "fast", bias |-> FALSE, priors |-> priors,
                   channels |-> Len(images), classes |-> classes,
                   type |-> intype, out |-> o, images |-> images]
             r == CheckedRun(c, st, fs)
             seg_list == Sorted(GlobPve(o, r.files))
             _tmp == Sorted(GlobMixel(o, r.files))
         IN  IF Failed(r) THEN r
             ELSE [r EXCEPT !.ret = Append(seg_list, JoinPaths(_tmp))]

\* The omat argument of flirt: None, True, or a path.
OmatNone == [kind |-> "None", path |-> None]
OmatTrue == [kind |-> "True", path |-> None]
OmatPath(p) == [kind |-> "path", path |-> p]

\* bool(omat)
Truthy(omat) == omat.kind = "True" \/ (omat.kind = "path" /\ omat.path # << >>)

\* fsl/flirt.py
flirt(image, ref, out, omat, dof, fs, st) ==
    IF Validate(<< image, ref >>, fs) # NoErr
    THEN Result(Validate(<< image, ref >>, fs), << >>, fs, None)
    ELSE LET _out == rm_ext(out)
             omat_ret == IF Truthy(omat) /\ out # None THEN _out \o << ".mat" >>
                         ELSE IF Truthy(omat)
                         THEN << "xfm-linear_dof-" >> \o DecTokens(dof) \o << ".mat" >>
                         ELSE omat.path
             omat_cmd == IF Truthy(omat) /\ out # None THEN _out \o << ".mat" >>
                         ELSE IF Truthy(omat) THEN None
                         ELSE IF omat.kind # "None"
                         THEN rm_ext(omat.path) \o << ".mat" >>
                         ELSE None
             c == [exe |-> "flirt", image |-> image, ref |-> ref, dof |-> dof,
                   out |-> out, omat |-> omat_cmd]
             r == CheckedRun(c, st, fs)
         IN  IF Failed(r) THEN r ELSE [r EXCEPT !.ret = << out, omat_ret >>]

\* fsl/fnirt.py
fnirt(image, ref, aff, out, iout, fout, cout, fs, st) ==
    IF Validate(<< image, ref >>, fs) # NoErr
    THEN Result(Validate(<< image, ref >>, fs), << >>, fs, None)
    ELSE IF aff # None /\ File(aff, fs) # NoErr
    THEN Result(File(aff, fs), << >>, fs, None)
    ELSE LET o == IF EndsWithNii(out) THEN rm_ext(out) ELSE out
             i == IF iout THEN o \o NiiGz ELSE None
             f == IF fout THEN o \o << "_field" >> \o NiiGz ELSE None
             k == IF cout THEN o \o << "_field_coeff" >> \o NiiGz ELSE None
             c == [exe |-> "fnirt", image |-> image, ref |-> ref, aff |-> aff,
                   iout |-> i, fout |-> f, cout |-> k]
             r == CheckedRun(c, st, fs)
         IN  IF Failed(r) THEN r ELSE [r EXCEPT !.ret = << i, f, k >>]

\* Convention with the absolute request tested first.
Convention_AbsFirst(rel, abs) ==
    IF abs THEN "--abs" ELSE IF rel THEN "--rel" ELSE "--abs"

\* The displacement convention flag both warp tools put on the command line.
Convention(rel, abs) == IF rel THEN "--rel" ELSE IF abs THEN "--abs" ELSE "--abs"

\* fsl/convertwarp.py (warp2 and premat are None in every call of the pipelines)
convertwarp(warp, out, ref, rel, abs, fs, st) ==
    IF Validate(<< warp, ref >>, fs) # NoErr
    THEN Result(Validate(<< warp, ref >>, fs), << >>, fs, None)
    ELSE LET c == [exe |-> "convertwarp", warp |-> warp, out |-> out,
                   ref |-> ref, conv |-> Convention(rel, abs)]
             r == CheckedRun(c, st, fs)
         IN  IF Failed(r) THEN r ELSE [r EXCEPT !.ret = << out >>]

\* fsl/applywarp.py
applywarp(image, ref, out, warp, abs, rel, fs, st) ==
    IF Validate(<< image, ref >>, fs) # NoErr
    THEN Result(Validate(<< image, ref >>, fs), << >>, fs, None)
    ELSE IF warp # None /\ NiiFile(warp, fs) # NoErr
    THEN Result(NiiFile(warp, fs), << >>, fs, None)
    ELSE LET c == [exe |-> "applywarp", image |-> image, ref |-> ref,
                   out |-> out, warp |-> warp, conv |-> Convention(rel, abs)]
             r == CheckedRun(c, st, fs)
         IN  IF Failed(r) THEN r ELSE [r EXCEPT !.ret = << out >>]

\* An operand of a numeric fslmaths method: a number (int or float), a string,
\* a value of any other type, or nothing (the default of the signature is used).
Num(n) == [kind |-> "num", num |-> << n >>, path |-> None]

Str(p) == [kind |-> "str", num |-> None, path |-> p]

OtherType == [kind |-> "other", num |-> None, path |-> None]

Omitted == [kind |-> "omitted", num |-> None, path |-> None]

\* One operation on the accumulated command line: the flag and its operand.
Op(flag, num, img) == [op |-> flag, num |-> num, img |-> img]

NoMaths == [image |-> None, ops |-> << >>, err |-> NoErr]

\* A method of an object whose construction or earlier method raised is never
\* reached: the exception is already propagating.
Raised(b) == b.err # NoErr

\* fsl/fslmaths.py, fslmaths.__init__ (dt is None in every call): the object
\* holds the command line accumulated so far; only run() spawns.
fslmaths(image, fs) ==
    [image |-> image, ops |-> << >>, err |-> NiiFile(image, fs)]

\* thrP and thr: isinstance(num, int) or isinstance(num, float); the default
\* of num is the typing object Union[int, float], which is neither
Threshold(b, flag, num) ==
    IF Raised(b) THEN b
    ELSE IF num.kind = "num"
    THEN [b EXCEPT !.ops = Append(@, Op(flag, num.num, None))]
    ELSE [b EXCEPT !.err = Error("TypeError", << flag >>)]

thrP(b, num) == Threshold(b, "-thrP", num)

thr(b, num) == Threshold(b, "-thr", num)

\* fslmaths.mask
mask(b, image, fs) ==
    IF Raised(b) THEN b
    ELSE IF NiiFile(image, fs) # NoErr THEN [b EXCEPT !.err = NiiFile(image, fs)]
    ELSE [b EXCEPT !.ops = Append(@, Op("-mas", None, image))]

\* for _ in range(repeat): self._cmd = f"{self._cmd} {flag}"
RECURSIVE Repeat(_, _, _)
Repeat(ops, flag, repeat) ==
    IF repeat <= 0 THEN ops
    ELSE Repeat(Append(ops, Op(flag, None, None)), flag, repeat - 1)

\* ero with the flag appended once whatever repeat is.
ero_Once(b, repeat) ==
    IF Raised(b) THEN b ELSE [b EXCEPT !.ops = Repeat(@, "-ero", 1)]

ero(b, repeat) ==
    IF Raised(b) THEN b ELSE [b EXCEPT !.ops = Repeat(@, "-ero", repeat)]

fmedian(b, repeat) ==
    IF Raised(b) THEN b ELSE [b EXCEPT !.ops = Repeat(@, "-fmedian", repeat)]

\* fmean appending the flag of the median filter.
fmean_AsMedian(b, repeat) ==
    IF Raised(b) THEN b ELSE [b EXCEPT !.ops = Repeat(@, "-fmedian", repeat)]

fmean(b, repeat) ==
    IF Raised(b) THEN b ELSE [b EXCEPT !.ops = Repeat(@, "-fmean", repeat)]

\* add, sub, mul and div: a number is appended as it is, a string goes
\* through NiiFile(assert_exists=True, validate_nifti=True), anything else is
\* a TypeError
Arith(b, flag, input, fs) ==
    IF Raised(b) THEN b
    ELSE IF input.kind = "num"
    THEN [b EXCEPT !.ops = Append(@, Op(flag, input.num, None))]
    ELSE IF input.kind = "str"
    THEN IF NiiFile(input.path, fs) # NoErr
         THEN [b EXCEPT !.err = NiiFile(input.path, fs)]
         ELSE [b EXCEPT !.ops = Append(@, Op(flag, None, input.path))]
    ELSE [b EXCEPT !.err = Error("TypeError", << flag >>)]

add(b, input, fs) == Arith(b, "-add", input, fs)

sub(b, input, fs) == Arith(b, "-sub", input, fs)

mul(b, input, fs) == Arith(b, "-mul", input, fs)

div(b, input, fs) == Arith(b, "-div", input, fs)

\* fslmaths.run (odt is None in every call): the output path goes after the
\* accumulated operations, then check_dependency() and run()
run(b, out, fs, st) ==
    IF Raised(b) THEN Result(b.err, << >>, fs, None)
    ELSE LET c == [exe |-> "fslmaths", image |-> b.image, ops |-> b.ops,
                   out |-> out]
             r == CheckedRun(c, st, fs)
         IN  IF Failed(r) THEN r ELSE [r EXCEPT !.ret = << out >>]

\* utils/util.py, extract (the bundled archive is a .tar.gz)
extract(file, fs, st) ==
    IF ~IsSuffix(<< ".tar", ".gz" >>, file)
    THEN Result(Error("RuntimeError", file), << >>, fs, None)
    ELSE CheckedRun([exe |-> "tar", flags |-> "-xvzf", file |-> file], st, fs)

-----------------------------------------------------------------------------
(* Command-line front end (anat_seg.py).                                   *)

\* len(sys.argv) == 1
NoArguments(a) ==
    /\ a.image = None /\ a.out = None /\ a.frac_int = None /\ a.intype = None
    /\ a.classes = None /\ a.priors = None
    /\ ~a.N4 /\ ~a.no_bias /\ ~a.neonate

\* parser.parse_args(): both required options must be present, otherwise
\* argparse prints the usage and error lines and exits with status 2.
arg_parser(a) == a.image # None /\ a.out # None

\* Defaults with "if not d.get(k)" in place of "if d.get(k) is None": an
\* explicit 0 is taken for an option that was not given.
Defaults_Falsy(a) ==
    [image |-> a.image, out |-> a.out,
     frac_int |-> IF a.frac_int # None /\ a.frac_int[1] # 0 THEN a.frac_int[1]
                  ELSE IF a.neonate THEN NeonateFracInt ELSE DefaultFracInt,
     N4 |-> a.N4, nobias |-> a.no_bias,
     intype |-> IF a.intype # None /\ a.intype[1] # 0 THEN a.intype[1]
                ELSE IF a.neonate THEN NeonateInType ELSE DefaultInType,
     classes |-> IF a.classes # None /\ a.classes[1] # 0 THEN a.classes[1]
                 ELSE IF a.neonate THEN NeonateClasses ELSE DefaultClasses,
     priors |-> a.priors, neonate |-> a.neonate]

\* proc, "Set defaults": d.get(k) is None selects the default of the mode
Defaults(a) ==
    [image |-> a.image, out |-> a.out,
     frac_int |-> IF a.frac_int # None THEN a.frac_int[1]
                  ELSE IF a.neonate THEN NeonateFracInt ELSE DefaultFracInt,
     N4 |-> a.N4, nobias |-> a.no_bias,
     intype |-> IF a.intype # None THEN a.intype[1]
                ELSE IF a.neonate THEN NeonateInType ELSE DefaultInType,
     classes |-> IF a.classes # None THEN a.classes[1]
                 ELSE IF a.neonate THEN NeonateClasses ELSE DefaultClasses,
     priors |-> a.priors, neonate |-> a.neonate]

LogName == << "anat_seg", ".log" >>

NoLog == [kind |-> "None", file |-> None, lines |-> << >>]

\* What Command.run(log=...) and LogFile.log() add to the sink.
Logged(sink, lines) ==
    IF sink.kind = "None" THEN sink
    ELSE [sink EXCEPT !.lines = @ \o lines]

RECURSIVE Exes(_)
Exes(cs) == IF cs = << >> THEN << >> ELSE << Head(cs).exe >> \o Exes(Tail(cs))

NoLocals ==
    [fn |-> "none", restore |-> None, brain |-> None, atlas |-> << >>,
     lin_xfm_mat |-> None, nonlin_xfm_fout |-> None, nonlin_xfm_warp |-> None,
     warped |-> 0, seg_list |-> << >>]

\* anat_seg.py, proc
Proc ==
    /\ pc = "proc"
    /\ IF ~arg_parser(argv)
       THEN /\ pc' = "exited"
            /\ exitStatus' = Some(2)
            /\ stderrOut' = "usage and error"
            /\ UNCHANGED << args, files, logSink >>
       ELSE IF NoArguments(argv)
       THEN /\ pc' = "exited"
            /\ exitStatus' = Some(1)
            /\ stderrOut' = "help"
            /\ UNCHANGED << args, files, logSink >>
       ELSE /\ pc' = "segmentation"
            /\ args' = Defaults(argv)
            /\ files' = WorkDir(argv.out, files) \cup { Join(argv.out, LogName) }
            /\ logSink' = [kind |-> "LogFile", file |-> Join(argv.out, LogName),
                           lines |-> << "anat_seg v" >>]
            /\ UNCHANGED << exitStatus, stderrOut >>
    /\ UNCHANGED << entry, argv, badImages, installed, archive, cmds, calls,
                    loc, depth, err, ret, maths, runs, writer >>

\* seg.py, segmentation: dispatch on the neonate flag
Segmentation ==
    /\ pc = "segmentation"
    /\ loc' = [NoLocals EXCEPT !.fn = IF args.neonate THEN "_neo_seg" ELSE "_seg"]
    /\ pc' = IF args.neonate THEN "neo_bias" ELSE "seg_bias"
    /\ files' = WorkDir(args.out, files)
    /\ UNCHANGED << entry, argv, args, badImages, installed, archive, cmds,
                    calls, depth, err, ret, exitStatus, stderrOut, logSink,
                    maths, runs, writer >>

\* Commit with the exception of the call swallowed: the pipeline goes on to
\* the next step.
Commit_Continue(r, next) ==
    /\ cmds' = cmds \o r.cmds
    /\ files' = r.files
    /\ logSink' = Logged(logSink, Exes(r.cmds))
    /\ err' = r.err
    /\ pc' = next

\* A wrapper call returned r: its commands, files and exception take effect.
Commit(r, next) ==
    /\ cmds' = cmds \o r.cmds
    /\ files' = r.files
    /\ logSink' = Logged(logSink, Exes(r.cmds))
    /\ err' = r.err
    /\ pc' = IF Failed(r) THEN "failed" ELSE next

Frame == << entry, argv, args, badImages, installed, archive, exitStatus,
           stderrOut, maths, runs, writer >>

ExitCodes == { 0, 1 }

\* SkipBias with the N4 request taking precedence over nobias.
SkipBias_UnlessN4(a) == a.nobias /\ ~a.N4

\* "if nobias:" of _seg and of _neo_seg: the bias step is skipped
SkipBias(a) == a.nobias

-----------------------------------------------------------------------------
(* Generic pipeline (seg.py, _seg).  Each XCall operator is the argument   *)
(* list the pipeline passes to wrapper X, from the arguments a of the      *)
(* pipeline and its local variables l.                                     *)

SegBiasCall(a) ==
    [fn |-> "biascorr", image |-> a.image, out |-> Join(a.out, << "anat" >>),
     N4 |-> a.N4]

\* SegBetCall with the brain extracted from the uncorrected input image.
SegBetCall_RawImage(a, l) ==
    [fn |-> "bet", image |-> a.image,
     out |-> Join(a.out, << "anat_brain" >> \o NiiGz),
     frac_int |-> a.frac_int, mask |-> TRUE]

SegBetCall(a, l) ==
    [fn |-> "bet", image |-> l.restore,
     out |-> Join(a.out, << "anat_brain" >> \o NiiGz),
     frac_int |-> a.frac_int, mask |-> TRUE]

\* SegFastCall with the classifier's prefix under one fixed directory,
\* whatever output directory the run was given.
SegFastCall_SharedPrefix(a, l) ==
    [fn |-> "fast", images |-> << l.brain >>,
     out |-> Join(OutDir, << "fast_segmentation" >>),
     intype |-> a.intype, classes |-> a.classes, priors |-> a.priors]

SegFastCall(a, l) ==
    [fn |-> "fast", images |-> << l.brain >>,
     out |-> Join(a.out, << "fast_segmentation" >>),
     intype |-> a.intype, classes |-> a.classes, priors |-> a.priors]

\* _seg, "Bias correct image"
Seg_Bias ==
    /\ pc = "seg_bias"
    /\ IF SkipBias(args)
       THEN /\ loc' = [loc EXCEPT !.restore = args.image]
            /\ pc' = "seg_bet"
            /\ UNCHANGED << cmds, calls, files, logSink, err >>
       ELSE \E st1, st2 \in ExitCodes :
              LET c == SegBiasCall(args)
                  r == biascorr(c.image, c.out, c.N4, files, st1, st2)
              IN  /\ calls' = Append(calls, c)
                  /\ loc' = IF Failed(r) THEN loc ELSE [loc EXCEPT !.restore = r.ret[1]]
                  /\ Commit(r, "seg_bet")
    /\ UNCHANGED << Frame, depth, ret >>

\* _seg, "Mask brain"
Seg_Bet ==
    /\ pc = "seg_bet"
    /\ \E st \in ExitCodes :
         LET c == SegBetCall(args, loc)
             r == bet(c.image, c.out, c.frac_int, c.mask, files, st)
         IN  /\ calls' = Append(calls, c)
             /\ loc' = IF Failed(r) THEN loc ELSE [loc EXCEPT !.brain = r.ret[1]]
             /\ Commit(r, "seg_fast")
    /\ UNCHANGED << Frame, depth, ret >>

\* _seg, fast(...) and return seg_list
Seg_Fast ==
    /\ pc = "seg_fast"
    /\ \E st \in ExitCodes :
         LET c == SegFastCall(args, loc)
             r == fast(c.images, c.out, c.intype, c.classes, c.priors, files, st)
         IN  /\ calls' = Append(calls, c)
             /\ loc' = IF Failed(r) THEN loc ELSE [loc EXCEPT !.seg_list = r.ret]
             /\ ret' = IF Failed(r) THEN ret ELSE r.ret
             /\ Commit(r, "done")
    /\ UNCHANGED << Frame, depth >>

-----------------------------------------------------------------------------
(* Neonatal pipeline (seg.py, _neo_seg).                                   *)

NeoBiasCall(a) ==
    [fn |-> "biascorr", image |-> a.image, out |-> Join(a.out, << "anat" >>),
     N4 |-> a.N4]

NeoBetCall(a, l) ==
    [fn |-> "bet", image |-> l.restore,
     out |-> Join(a.out, << "anat_brain" >> \o NiiGz),
     frac_int |-> a.frac_int, mask |-> TRUE]

\* _neo_seg, "Bias correct image"
Neo_Bias ==
    /\ pc = "neo_bias"
    /\ IF SkipBias(args)
       THEN /\ loc' = [loc EXCEPT !.restore = args.image]
            /\ pc' = "neo_bet"
            /\ UNCHANGED << cmds, calls, files, logSink, err >>
       ELSE \E st1, st2 \in ExitCodes :
              LET c == NeoBiasCall(args)
                  r == biascorr(c.image, c.out, c.N4, files, st1, st2)
              IN  /\ calls' = Append(calls, c)
                  /\ loc' = IF Failed(r) THEN loc ELSE [loc EXCEPT !.restore = r.ret[1]]
                  /\ Commit(r, "neo_bet")
    /\ UNCHANGED << Frame, depth, ret >>

\* _neo_seg, "Mask brain"
Neo_Bet ==
    /\ pc = "neo_bet"
    /\ \E st \in ExitCodes :
         LET c == NeoBetCall(args, loc)
             r == bet(c.image, c.out, c.frac_int, c.mask, files, st)
         IN  /\ calls' = Append(calls, c)
             /\ loc' = IF Failed(r) THEN loc ELSE [loc EXCEPT !.brain = r.ret[1]]
             /\ Commit(r, "neo_atlas")
    /\ UNCHANGED << Frame, depth, ret >>

unc_atlas_dir == Join(AtlasDir, UncAtlasName)

unc_zip_file == Join(AtlasDir, << "UNC", ".tar", ".gz" >>)

\* What the branch of get_UNC_neonate_atlas that finds the directory returns:
\* template, template_brain, gm, wm, csf.
AtlasPaths ==
    LET t(n) == AtlasDir \o Templates \o << n >> \o NiiGz
    IN  << t("infant-neo-withSkull"), t("infant-neo-withCerebellum"),
           t("infant-neo-seg-gm"), t("infant-neo-seg-wm"), t("infant-neo-seg-csf") >>

\* The value the outermost frame hands to _neo_seg once the frame at depth d
\* has found the directory: only the frame that finds it has a return
\* statement, the frames that extracted fall off the end of the function.
AtlasReturn(d) == IF d = 0 THEN AtlasPaths ELSE << >>

\* utils/util.py, get_UNC_neonate_atlas: one frame of the function per step,
\* and the tuple unpacking in _neo_seg once the outermost frame has returned.
Neo_Atlas ==
    /\ pc = "neo_atlas"
    /\ calls' = Append(calls, [fn |-> "get_UNC_neonate_atlas", frame |-> depth])
    /\ IF unc_atlas_dir \in files
       THEN /\ IF Len(AtlasReturn(depth)) = 5
               THEN /\ loc' = [loc EXCEPT !.atlas = AtlasReturn(depth)]
                    /\ pc' = "neo_flirt"
                    /\ err' = err
               ELSE /\ loc' = loc
                    /\ pc' = "failed"
                    /\ err' = Error("TypeError", << "cannot unpack NoneType" >>)
            /\ UNCHANGED << cmds, files, logSink, depth >>
       ELSE IF depth >= MaxRecursion
       THEN /\ pc' = "failed"
            /\ err' = Error("RecursionError", << "get_UNC_neonate_atlas" >>)
            /\ UNCHANGED << cmds, files, logSink, depth, loc >>
       ELSE \E st \in ExitCodes :
              LET r == extract(unc_zip_file, files, st)
              IN  /\ cmds' = cmds \o r.cmds
                  /\ files' = r.files
                  /\ err' = r.err
                  /\ pc' = IF Failed(r) THEN "failed" ELSE "neo_atlas"
                  /\ depth' = IF Failed(r) THEN depth ELSE depth + 1
                  /\ UNCHANGED << logSink, loc >>
    /\ UNCHANGED << Frame, ret >>

NativeXfm(suffix) ==
    << "template-to-native_space-native_xfm-" >> \o suffix

NeoFlirtCall(a, l) ==
    [fn |-> "flirt", image |-> l.atlas[2], ref |-> l.brain,
     out |-> Join(a.out, NativeXfm(<< "linear" >> \o NiiGz)),
     omat |-> OmatTrue, dof |-> FlirtDof]

NeoFnirtCall(a, l) ==
    [fn |-> "fnirt", image |-> l.atlas[1], ref |-> l.restore,
     aff |-> l.lin_xfm_mat,
     out |-> Join(a.out, NativeXfm(<< "nonlinear" >> \o NiiGz)),
     iout |-> TRUE, fout |-> TRUE, cout |-> TRUE]

\* NeoConvertwarpCall fed the warped image of fnirt instead of its field.
NeoConvertwarpCall_WrongWarp(a, l) ==
    [fn |-> "convertwarp",
     warp |-> Join(a.out, NativeXfm(<< "nonlinear" >> \o NiiGz)),
     out |-> Join(a.out, NativeXfm(<< "nonlinear_warp" >>)),
     ref |-> l.restore, rel |-> TRUE, abs |-> FALSE]

NeoConvertwarpCall(a, l) ==
    [fn |-> "convertwarp", warp |-> l.nonlin_xfm_fout,
     out |-> Join(a.out, NativeXfm(<< "nonlinear_warp" >>)),
     ref |-> l.restore, rel |-> TRUE, abs |-> FALSE]

\* _neo_seg, the tissues table, in the insertion order of its keys (gm, wm, csf)
Tissues(atlas, od) ==
    LET xfm(t) == Join(od, NativeXfm(<< "nonlinear_tissue-", t >> \o NiiGz))
    IN  << [tissue |-> "gm", template |-> atlas[3], xfm |-> xfm("gm")],
           [tissue |-> "wm", template |-> atlas[4], xfm |-> xfm("wm")],
           [tissue |-> "csf", template |-> atlas[5], xfm |-> xfm("csf")] >>

\* tissues.get(name)
Get(tissues, name) ==
    CHOOSE t \in { tissues[i] : i \in DOMAIN tissues } : t.tissue = name

\* the applywarp call of the loop iteration that follows l.warped completed ones
NeoApplywarpCall(a, l) ==
    LET t == Tissues(l.atlas, a.out)[l.warped + 1]
    IN  [fn |-> "applywarp", image |-> t.template, ref |-> l.brain,
         out |-> t.xfm, warp |-> l.nonlin_xfm_warp, rel |-> TRUE, abs |-> FALSE]

\* NeoFastCall with the caller's priors handed to the classifier when there
\* are any.
NeoFastCall_UserPriors(a, l) ==
    LET tissues == Tissues(l.atlas, a.out)
    IN  [fn |-> "fast", images |-> << l.brain >>,
         out |-> Join(a.out, << "fast_segmentation" >>),
         intype |-> a.intype, classes |-> a.classes,
         priors |-> IF a.priors # None THEN a.priors
                    ELSE << Get(tissues, "csf").template,
                            Get(tissues, "gm").template,
                            Get(tissues, "wm").template >>]

NeoFastCall(a, l) ==
    LET tissues == Tissues(l.atlas, a.out)
    IN  [fn |-> "fast", images |-> << l.brain >>,
         out |-> Join(a.out, << "fast_segmentation" >>),
         intype |-> a.intype, classes |-> a.classes,
         priors |-> << Get(tissues, "csf").template,
                       Get(tissues, "gm").template,
                       Get(tissues, "wm").template >>]

\* _neo_seg, "Compute (affine) linear transforms"
Neo_Flirt ==
    /\ pc = "neo_flirt"
    /\ \E st \in ExitCodes :
         LET c == NeoFlirtCall(args, loc)
             r == flirt(c.image, c.ref, c.out, c.omat, c.dof, files, st)
         IN  /\ calls' = Append(calls, c)
             /\ loc' = IF Failed(r) THEN loc ELSE [loc EXCEPT !.lin_xfm_mat = r.ret[2]]
             /\ Commit(r, "neo_fnirt")
    /\ UNCHANGED << Frame, depth, ret >>

\* _neo_seg, "Compute non-linear transforms"
Neo_Fnirt ==
    /\ pc = "neo_fnirt"
    /\ \E st \in ExitCodes :
         LET c == NeoFnirtCall(args, loc)
             r == fnirt(c.image, c.ref, c.aff, c.out, c.iout, c.fout, c.cout,
                        files, st)
         IN  /\ calls' = Append(calls, c)
             /\ loc' = IF Failed(r) THEN loc
                       ELSE [loc EXCEPT !.nonlin_xfm_fout = r.ret[2]]
             /\ Commit(r, "neo_convertwarp")
    /\ UNCHANGED << Frame, depth, ret >>

\* _neo_seg, "Convert warps and incorporate linear transforms"
Neo_Convertwarp ==
    /\ pc = "neo_convertwarp"
    /\ \E st \in ExitCodes :
         LET c == NeoConvertwarpCall(args, loc)
             r == convertwarp(c.warp, c.out, c.ref, c.rel, c.abs, files, st)
         IN  /\ calls' = Append(calls, c)
             /\ loc' = IF Failed(r) THEN loc
                       ELSE [loc EXCEPT !.nonlin_xfm_warp = r.ret[1]]
             /\ Commit(r, "neo_applywarp")
    /\ UNCHANGED << Frame, depth, ret >>

\* _neo_seg, "Apply non-linear transforms to template files": one iteration
Neo_Applywarp ==
    /\ pc = "neo_applywarp"
    /\ \E st \in ExitCodes :
         LET c == NeoApplywarpCall(args, loc)
             r == applywarp(c.image, c.ref, c.out, c.warp, c.abs, c.rel, files, st)
         IN  /\ calls' = Append(calls, c)
             /\ loc' = IF Failed(r) THEN loc ELSE [loc EXCEPT !.warped = @ + 1]
             /\ Commit(r, IF loc.warped + 1 = Len(Tissues(loc.atlas, args.out))
                          THEN "neo_fast" ELSE "neo_applywarp")
    /\ UNCHANGED << Frame, depth, ret >>

\* _neo_seg, "Perform brain tissue segmentation"
Neo_Fast ==
    /\ pc = "neo_fast"
    /\ \E st \in ExitCodes :
         LET c == NeoFastCall(args, loc)
             r == fast(c.images, c.out, c.intype, c.classes, c.priors, files, st)
         IN  /\ calls' = Append(calls, c)
             /\ loc' = IF Failed(r) THEN loc ELSE [loc EXCEPT !.seg_list = r.ret]
             /\ Commit(r, "neo_post")
    /\ UNCHANGED << Frame, depth, ret >>

TissueOut(od, t) ==
    Join(od, << "fast_segmentation_space-native_tissue-", t >> \o NiiGz)

\* NiiFile.move: the source is renamed to the destination
Move(src, dst, fs) == (fs \ { src }) \cup { dst }

\* _neo_seg, "Rename and construct files"
post(seg_list, od, sink, fs, st1, st2) ==
    IF Len(seg_list) # 6
    THEN Result(Error("ValueError", << "unpack" >>), << >>, fs, None)
    ELSE
      LET pve0 == seg_list[1]
          pve1 == seg_list[2]
          pve2 == seg_list[3]
          pve3 == seg_list[4]
          mixel == seg_list[6]
          csf == TissueOut(od, "csf")
          fs1 == Move(pve0, csf, fs)
          g == run(fmean(fslmaths(pve3, fs1), 1), TissueOut(od, "gm"), fs1, st1)
          w == run(fmedian(add(fslmaths(pve1, g.files), Str(pve2), g.files), 1),
                   TissueOut(od, "wm"), g.files, st2)
      IN  IF NiiFile(pve0, fs) # NoErr
          THEN Result(NiiFile(pve0, fs), << >>, fs, None)
          ELSE IF sink.kind # "LogFile"
          THEN Result(Error("AttributeError", << "log" >>), << >>, fs1, None)
          ELSE IF NiiFile(pve3, fs1) # NoErr
          THEN Result(NiiFile(pve3, fs1), << >>, fs1, None)
          ELSE IF Failed(g) THEN g
          ELSE IF Validate(<< pve1, pve2 >>, g.files) # NoErr
          THEN Result(Validate(<< pve1, pve2 >>, g.files), g.cmds, g.files, None)
          ELSE IF Failed(w) THEN [w EXCEPT !.cmds = g.cmds \o w.cmds]
          ELSE Result(NoErr, g.cmds \o w.cmds, w.files,
                      << csf, g.ret[1], w.ret[1], mixel >>)

\* log.log(f"Moving ...") is reached once the CSF map has been moved
Moved(seg_list, sink, fs) ==
    /\ Len(seg_list) = 6
    /\ NiiFile(seg_list[1], fs) = NoErr
    /\ sink.kind = "LogFile"

\* _neo_seg, post-processing and return
Neo_Post ==
    /\ pc = "neo_post"
    /\ \E st1, st2 \in ExitCodes :
         LET r == post(loc.seg_list, args.out, logSink, files, st1, st2)
         IN  /\ calls' = Append(calls, [fn |-> "post", seg_list |-> loc.seg_list])
             /\ ret' = IF Failed(r) THEN ret ELSE r.ret
             /\ logSink' = Logged(Logged(logSink,
                                         IF Moved(loc.seg_list, logSink, files)
                                         THEN << "Moving" >> ELSE << >>),
                                  Exes(r.cmds))
             /\ cmds' = cmds \o r.cmds
             /\ files' = r.files
             /\ err' = r.err
             /\ pc' = IF Failed(r) THEN "failed" ELSE "done"
    /\ UNCHANGED << Frame, depth, loc >>

-----------------------------------------------------------------------------
(* Direct calls of the wrappers (they are importable on their own): one    *)
(* call of flirt, convertwarp or applywarp, or one fslmaths object built,  *)
(* chained and run.                                                        *)

\* The input image and the prior images a caller supplies.
Image == Join(InDir, << "T2w" >> \o NiiGz)

UserPriors ==
    << Join(InDir, << "prior_csf" >> \o NiiGz),
       Join(InDir, << "prior_gm" >> \o NiiGz),
       Join(InDir, << "prior_wm" >> \o NiiGz) >>

MissingImage == Join(InDir, << "absent" >> \o NiiGz)

InvalidImage == Join(InDir, << "notes", ".txt" >>)

\* The arguments tried on the wrappers.
OutChoices == { None, Join(OutDir, << "lin" >> \o NiiGz) }

OmatChoices == { OmatNone, OmatTrue, OmatPath(Join(OutDir, << "my_xfm", ".mat" >>)) }

ThresholdOperands == { Num(5), Str(Image), Omitted }

ArithOperands == { Num(2), Str(Image), Str(MissingImage), Str(InvalidImage),
                   OtherType }

\* The exception of a finished call ends the caller; otherwise it goes on.
Returned(r, value) ==
    /\ cmds' = cmds \o r.cmds
    /\ files' = r.files
    /\ err' = r.err
    /\ ret' = IF Failed(r) THEN ret ELSE value
    /\ pc' = IF Failed(r) THEN "failed" ELSE "returned"
    /\ UNCHANGED << Frame, loc, depth, logSink >>

Call_Flirt ==
    /\ pc = "wrap"
    /\ \E out \in OutChoices, omat \in OmatChoices, st \in ExitCodes :
         LET c == [fn |-> "flirt", image |-> Image, ref |-> UserPriors[1],
                   out |-> out, omat |-> omat, dof |-> FlirtDof]
             r == flirt(c.image, c.ref, c.out, c.omat, c.dof, files, st)
         IN  /\ calls' = Append(calls, c)
             /\ Returned(r, r.ret)

Call_Convertwarp ==
    /\ pc = "wrap"
    /\ \E rel \in BOOLEAN, abs \in BOOLEAN, st \in ExitCodes :
         LET c == [fn |-> "convertwarp", warp |-> UserPriors[1],
                   out |-> Join(OutDir, << "warp" >>), ref |-> Image,
                   rel |-> rel, abs |-> abs]
             r == convertwarp(c.warp, c.out, c.ref, c.rel, c.abs, files, st)
         IN  /\ calls' = Append(calls, c)
             /\ Returned(r, r.ret)

Call_Applywarp ==
    /\ pc = "wrap"
    /\ \E rel \in BOOLEAN, abs \in BOOLEAN, st \in ExitCodes :
         LET c == [fn |-> "applywarp", image |-> UserPriors[2], ref |-> Image,
                   out |-> Join(OutDir, << "warped" >> \o NiiGz),
                   warp |-> UserPriors[1], rel |-> rel, abs |-> abs]
             r == applywarp(c.image, c.ref, c.out, c.warp, c.abs, c.rel, files, st)
         IN  /\ calls' = Append(calls, c)
             /\ Returned(r, r.ret)

\* A prefix nothing was written under yet, and one under which an earlier
\* classification left a renamed mixel-type file.
CleanPrefix == Join(OutDir, << "clean" >>)

UsedPrefix == Join(OutDir, << "used" >>)

OldMixel == UsedPrefix \o << "_mixeltype_old" >> \o NiiGz

Call_Fast ==
    /\ pc = "wrap"
    /\ \E out \in { CleanPrefix, UsedPrefix },
          classes \in { DefaultClasses, MaxClasses }, st \in ExitCodes :
         LET c == [fn |-> "fast", images |-> << Image >>, out |-> out,
                   intype |-> DefaultInType, classes |-> classes,
                   priors |-> None]
             r == fast(c.images, c.out, c.intype, c.classes, c.priors, files, st)
         IN  /\ calls' = Append(calls, c)
             /\ Returned(r, r.ret)

Call_Biascorr ==
    /\ pc = "wrap"
    /\ \E out \in { Join(OutDir, << "anat" >>), Join(OutDir, << "anat" >> \o NiiGz) },
          N4 \in BOOLEAN, st1 \in ExitCodes, st2 \in ExitCodes :
         LET c == [fn |-> "biascorr", image |-> Image, out |-> out, N4 |-> N4]
             r == biascorr(c.image, c.out, c.N4, files, st1, st2)
         IN  /\ calls' = Append(calls, c)
             /\ Returned(r, r.ret)

\* A constructor or method call c left the object b.
Chained(c, b) ==
    /\ calls' = Append(calls, c)
    /\ maths' = b
    /\ err' = b.err
    /\ pc' = IF Raised(b) THEN "failed" ELSE "maths"
    /\ UNCHANGED << entry, argv, args, files, badImages, installed, archive,
                    cmds, loc, depth, ret, exitStatus, stderrOut, logSink,
                    runs, writer >>

Chaining == pc = "maths" /\ Len(calls) <= MaxChain

Maths_New ==
    /\ pc = "wrap"
    /\ \E image \in { Image, MissingImage } :
         Chained([fn |-> "fslmaths", operand |-> Str(image), repeat |-> 0],
                 fslmaths(image, files))

Maths_thrP ==
    /\ Chaining
    /\ \E num \in ThresholdOperands :
         Chained([fn |-> "thrP", operand |-> num, repeat |-> 0], thrP(maths, num))

Maths_thr ==
    /\ Chaining
    /\ \E num \in ThresholdOperands :
         Chained([fn |-> "thr", operand |-> num, repeat |-> 0], thr(maths, num))

Maths_mask ==
    /\ Chaining
    /\ \E image \in { UserPriors[1], MissingImage } :
         Chained([fn |-> "mask", operand |-> Str(image), repeat |-> 0],
                 mask(maths, image, files))

Maths_ero ==
    /\ Chaining
    /\ \E repeat \in 0 .. MaxRepeat :
         Chained([fn |-> "ero", operand |-> Omitted, repeat |-> repeat],
                 ero(maths, repeat))

Maths_fmean ==
    /\ Chaining
    /\ \E repeat \in 0 .. MaxRepeat :
         Chained([fn |-> "fmean", operand |-> Omitted, repeat |-> repeat],
                 fmean(maths, repeat))

Maths_fmedian ==
    /\ Chaining
    /\ \E repeat \in 0 .. MaxRepeat :
         Chained([fn |-> "fmedian", operand |-> Omitted, repeat |-> repeat],
                 fmedian(maths, repeat))

Maths_add ==
    /\ Chaining
    /\ \E input \in ArithOperands :
         Chained([fn |-> "add", operand |-> input, repeat |-> 0],
                 add(maths, input, files))

Maths_sub ==
    /\ Chaining
    /\ \E input \in ArithOperands :
         Chained([fn |-> "sub", operand |-> input, repeat |-> 0],
                 sub(maths, input, files))

Maths_mul ==
    /\ Chaining
    /\ \E input \in ArithOperands :
         Chained([fn |-> "mul", operand |-> input, repeat |-> 0],
                 mul(maths, input, files))

Maths_div ==
    /\ Chaining
    /\ \E input \in ArithOperands :
         Chained([fn |-> "div", operand |-> input, repeat |-> 0],
                 div(maths, input, files))

MathsOut == Join(OutDir, << "maths" >> \o NiiGz)

\* run() also leaves the output path on the command line the object holds.
Maths_run ==
    /\ pc = "maths"
    /\ \E st \in ExitCodes :
         LET r == run(maths, MathsOut, files, st)
         IN  /\ calls' = Append(calls, [fn |-> "run", operand |-> Str(MathsOut),
                                        repeat |-> 0])
             /\ cmds' = cmds \o r.cmds
             /\ files' = r.files
             /\ err' = r.err
             /\ ret' = IF Failed(r) THEN ret ELSE r.ret
             /\ pc' = IF Failed(r) THEN "failed" ELSE "returned"
             /\ maths' = [maths EXCEPT !.ops = Append(@, Op("", None, MathsOut))]
             /\ UNCHANGED << entry, argv, args, badImages, installed, archive,
                             loc, depth, exitStatus, stderrOut, logSink,
                             runs, writer >>

-----------------------------------------------------------------------------
(* Initial states: the inputs and the environment of one run.              *)

AllTools == { "fast", "bet", "N4BiasFieldCorrection", "N4", "flirt", "fnirt",
              "convertwarp", "applywarp", "fslmaths", "tar" }

\* Everything installed, one executable missing, or N4 missing under both names.
InstalledChoices ==
    { AllTools } \cup { AllTools \ { e } : e \in AllTools }
      \cup { AllTools \ { N4Names[1], N4Names[2] } }

Range(s) == { s[i] : i \in DOMAIN s }

AtlasOnDisk == { AtlasDir \o f : f \in ArchiveMembers }

\* The command lines tried on the front end.
CliArgs ==
    [image : { None, Image }, out : { None, OutDir },
     frac_int : { None, Some(0), Some(DefaultFracInt) },
     intype : { None, Some(DefaultInType), Some(3) },
     classes : { None, Some(2), Some(NeonateClasses) },
     N4 : BOOLEAN, no_bias : BOOLEAN, neonate : BOOLEAN,
     priors : { None, UserPriors }]

\* Direct calls of segmentation(), defaults of the signature for the numbers;
\* a neonatal call is made with the neonatal class count or with the generic
\* one.
LibArgs ==
    LET all == { [image |-> Image, out |-> OutDir,
                  frac_int |-> IF neo THEN NeonateFracInt ELSE DefaultFracInt,
                  N4 |-> n4, nobias |-> nb,
                  intype |-> IF neo THEN NeonateInType ELSE DefaultInType,
                  classes |-> cl, priors |-> pr, neonate |-> neo] :
                 n4 \in BOOLEAN, nb \in BOOLEAN, neo \in BOOLEAN,
                 pr \in { None, UserPriors },
                 cl \in { DefaultClasses, NeonateClasses } }
    IN  { a \in all : a.neonate \/ a.classes = DefaultClasses }

NoArgv ==
    [image |-> None, out |-> None, frac_int |-> None, intype |-> None,
     classes |-> None, N4 |-> FALSE, no_bias |-> FALSE, neonate |-> FALSE,
     priors |-> None]

NoArgs ==
    [image |-> None, out |-> None, frac_int |-> 0, N4 |-> FALSE, nobias |-> FALSE,
     intype |-> 0, classes |-> 0, priors |-> None, neonate |-> FALSE]

\* No file has been written by a run yet.
NoWriter == [f \in {} |-> 0]

InitCommon ==
    /\ cmds = << >>
    /\ calls = << >>
    /\ loc = NoLocals
    /\ depth = 0
    /\ err = NoErr
    /\ ret = None
    /\ exitStatus = None
    /\ stderrOut = ""
    /\ maths = NoMaths

\* What an earlier generic run with five classes left in the output directory.
StaleOutputs ==
    Outputs([exe |-> "fast", bias |-> FALSE,
             out |-> Join(OutDir, << "fast_segmentation" >>),
             classes |-> NeonateClasses])

\* Runs started from the command line, in a complete installation, with the
\* atlas unpacked already or still in its archive.
InitCli ==
    /\ entry = "cli"
    /\ pc = "proc"
    /\ argv \in CliArgs
    /\ args = NoArgs
    /\ \E atlas \in BOOLEAN :
         files = { Image, unc_zip_file } \cup Range(UserPriors)
                   \cup (IF atlas THEN AtlasOnDisk ELSE {})
    /\ badImages = {}
    /\ installed = AllTools
    /\ archive = [present |-> TRUE, inplace |-> TRUE]
    /\ logSink = NoLog

\* Direct calls of segmentation() in every environment.
InitLib ==
    /\ entry = "lib"
    /\ pc = "segmentation"
    /\ argv = NoArgv
    /\ args \in LibArgs
    /\ installed \in InstalledChoices
    /\ \E img \in { "valid", "missing", "invalid" }, atlas \in BOOLEAN,
          stale \in BOOLEAN, pri \in BOOLEAN :
         /\ ~pri => args.priors # None
         /\ archive \in [present : BOOLEAN, inplace : BOOLEAN]
         /\ atlas => (archive.present /\ archive.inplace)
         /\ ~archive.present => ~archive.inplace
         /\ ~args.neonate => atlas
         /\ files = (IF img = "missing" THEN {} ELSE { Image })
                      \cup (IF pri THEN Range(UserPriors) ELSE {})
                      \cup (IF atlas THEN AtlasOnDisk ELSE {})
                      \cup (IF archive.present THEN { unc_zip_file } ELSE {})
                      \cup (IF stale THEN { OutDir } \cup StaleOutputs ELSE {})
         /\ badImages = IF img = "invalid" THEN { Image } ELSE {}
    /\ logSink \in { NoLog,
                     [kind |-> "str", file |-> Join(OutDir, LogName), lines |-> << >>],
                     [kind |-> "LogFile", file |-> Join(OutDir, LogName),
                      lines |-> << >>] }

\* Direct calls of the wrappers, in a complete installation.
InitWrap ==
    /\ entry = "wrap"
    /\ pc = "wrap"
    /\ argv = NoArgv
    /\ args = NoArgs
    /\ files = { Image, InvalidImage, OldMixel } \cup Range(UserPriors)
    /\ badImages = { InvalidImage }
    /\ installed = AllTools
    /\ archive = [present |-> FALSE, inplace |-> FALSE]
    /\ logSink = NoLog

Init ==
    /\ InitCommon
    /\ runs = << >>
    /\ writer = NoWriter
    /\ (InitCli \/ InitLib \/ InitWrap)

Next ==
    \/ Proc
    \/ Segmentation
    \/ Seg_Bias
    \/ Seg_Bet
    \/ Seg_Fast
    \/ Neo_Bias
    \/ Neo_Bet
    \/ Neo_Atlas
    \/ Neo_Flirt
    \/ Neo_Fnirt
    \/ Neo_Convertwarp
    \/ Neo_Applywarp
    \/ Neo_Fast
    \/ Neo_Post
    \/ Call_Flirt
    \/ Call_Convertwarp
    \/ Call_Applywarp
    \/ Call_Fast
    \/ Call_Biascorr
    \/ Maths_New
    \/ Maths_thrP
    \/ Maths_thr
    \/ Maths_mask
    \/ Maths_ero
    \/ Maths_fmean
    \/ Maths_fmedian
    \/ Maths_add
    \/ Maths_sub
    \/ Maths_mul
    \/ Maths_div
    \/ Maths_run

Spec == Init /\ [][Next]_vars

-----------------------------------------------------------------------------
(* Two runs of the generic pipeline (seg.py, _seg) as two processes on one *)
(* disk. Each statement that spawns a tool or lists a directory is one     *)
(* step; the steps of the two runs interleave freely, since WorkDir takes  *)
(* no lock.                                                                *)

RunIds == { 1, 2 }

OtherDir == << "/out2/" >>

ConcArgs(out, classes, nobias) ==
    [image |-> Image, out |-> out, frac_int |-> DefaultFracInt, N4 |-> FALSE,
     nobias |-> nobias, intype |-> DefaultInType, classes |-> classes,
     priors |-> None, neonate |-> FALSE]

NewRun(a) ==
    [args |-> a, pc |-> "seg", loc |-> [NoLocals EXCEPT !.fn = "_seg"],
     ret |-> None, err |-> NoErr, foreign |-> {}]

\* Of the files a step reads or lists, those last written by the other run.
Foreign(i, used) == { f \in used \cap DOMAIN writer : writer[f] # i }

\* Run i has written the files W.
Wrote(i, W) ==
    [f \in DOMAIN writer \cup W |-> IF f \in W THEN i ELSE writer[f]]

\* What a step of run i leaves behind: the result r of its call, the files
\* it used, the files it wrote when it succeeded, its locals and where it
\* goes on.
Step(i, r, used, written, l, next) ==
    /\ files' = r.files
    /\ cmds' = cmds \o r.cmds
    /\ writer' = IF Failed(r) THEN writer ELSE Wrote(i, written)
    /\ runs' = [runs EXCEPT
                  ![i].pc = IF Failed(r) THEN "failed" ELSE next,
                  ![i].err = r.err,
                  ![i].loc = IF Failed(r) THEN @ ELSE l,
                  ![i].foreign = @ \cup Foreign(i, used)]
    /\ UNCHANGED << entry, argv, args, pc, badImages, installed, archive, calls,
                    loc, depth, err, ret, exitStatus, stderrOut, logSink, maths >>

\* _seg, `with WorkDir(src=outdir) as od`
C_WorkDir(i) ==
    /\ runs[i].pc = "seg"
    /\ Step(i, Result(NoErr, << >>, WorkDir(runs[i].args.out, files), None),
            {}, {}, runs[i].loc, "seg_bias")

\* _seg, "Bias correct image"
C_Bias(i) ==
    /\ runs[i].pc = "seg_bias"
    /\ LET a == runs[i].args
           l == runs[i].loc
       IN  IF SkipBias(a)
           THEN Step(i, Result(NoErr, << >>, files, None), {}, {},
                     [l EXCEPT !.restore = a.image], "seg_bet")
           ELSE \E st \in ExitCodes :
                  LET c == SegBiasCall(a)
                      r == biascorr(c.image, c.out, c.N4, files, st, st)
                  IN  Step(i, r, { c.image }, Range(r.ret),
                           [l EXCEPT !.restore = r.ret[1]], "seg_bet")

\* _seg, "Mask brain"
C_Bet(i) ==
    /\ runs[i].pc = "seg_bet"
    /\ \E st \in ExitCodes :
         LET c == SegBetCall(runs[i].args, runs[i].loc)
             r == bet(c.image, c.out, c.frac_int, c.mask, files, st)
         IN  Step(i, r, { c.image }, Range(r.ret),
                  [runs[i].loc EXCEPT !.brain = r.ret[1]], "seg_fast")

\* fast(), up to the return of the classifier
C_FastRun(i) ==
    /\ runs[i].pc = "seg_fast"
    /\ \E st \in ExitCodes :
         LET c == SegFastCall(runs[i].args, runs[i].loc)
             r == fast(c.images, c.out, c.intype, c.classes, c.priors, files, st)
         IN  Step(i, r, Range(c.images),
                  UNION { Outputs(r.cmds[k]) : k \in DOMAIN r.cmds },
                  runs[i].loc, "seg_glob")

\* fast(), the listing of the classifier's outputs, and _seg's return
C_FastGlob(i) ==
    /\ runs[i].pc = "seg_glob"
    /\ LET c == SegFastCall(runs[i].args, runs[i].loc)
           o == rm_ext(c.out)
           pves == GlobPve(o, files)
           mixels == GlobMixel(o, files)
           seg_list == Sorted(pves) \o << JoinPaths(Sorted(mixels)) >>
       IN  /\ Step(i, Result(NoErr, << >>, files, None), pves \cup mixels, {},
                   [runs[i].loc EXCEPT !.seg_list = seg_list], "seg_returned")

\* _seg, `return seg_list`
C_Return(i) ==
    /\ runs[i].pc = "seg_returned"
    /\ runs' = [runs EXCEPT ![i].pc = "done", ![i].ret = runs[i].loc.seg_list]
    /\ UNCHANGED << entry, argv, args, pc, files, badImages, installed, archive,
                    cmds, calls, loc, depth, err, ret, exitStatus, stderrOut,
                    logSink, maths, writer >>

\* Run 1 writes under OutDir; run 2 under the same directory or another
\* one. The runs ask for two or three classes, with or without the bias
\* correction, in a complete installation.
InitConc ==
    /\ InitCommon
    /\ entry = "conc"
    /\ pc = "conc"
    /\ argv = NoArgv
    /\ args = NoArgs
    /\ files = { Image }
    /\ badImages = {}
    /\ installed = AllTools
    /\ archive = [present |-> FALSE, inplace |-> FALSE]
    /\ logSink = NoLog
    /\ writer = NoWriter
    /\ \E out2 \in { OutDir, OtherDir }, cl1, cl2 \in { 2, DefaultClasses },
          nb1, nb2 \in BOOLEAN :
         runs = << NewRun(ConcArgs(OutDir, cl1, nb1)),
                   NewRun(ConcArgs(out2, cl2, nb2)) >>

NextConc ==
    \E i \in RunIds :
      \/ C_WorkDir(i)
      \/ C_Bias(i)
      \/ C_Bet(i)
      \/ C_FastRun(i)
      \/ C_FastGlob(i)
      \/ C_Return(i)

SpecConc == InitConc /\ [][NextConc]_vars

-----------------------------------------------------------------------------
(* Properties.                                                             *)

\* The run has got past argument parsing, so args is what segmentation() receives.
Dispatched == pc \notin { "proc", "exited" }

BiasCmd(c) == (c.exe = "fast" /\ c.bias) \/ c.exe \in Range(N4Names)

\* C1: on a command-line run, each of frac_int, intype and classes that was
\* not given is 0.3 / 2 / 5 with --neonate and 0.5 / 1 / 3 without it, and
\* each one that was given reaches segmentation() with the value given,
\* whatever the neonate flag is.
C1_DefaultDerivation ==
    (entry = "cli" /\ Dispatched) =>
      /\ args.frac_int = IF argv.frac_int # None THEN argv.frac_int[1]
                         ELSE IF argv.neonate THEN 3 ELSE 5
      /\ args.intype = IF argv.intype # None THEN argv.intype[1]
                       ELSE IF argv.neonate THEN 2 ELSE 1
      /\ args.classes = IF argv.classes # None THEN argv.classes[1]
                        ELSE IF argv.neonate THEN 5 ELSE 3
      /\ args.neonate = argv.neonate

C1_Witness ==
    /\ entry = "cli" /\ pc = "neo_bias"
    /\ argv.frac_int = Some(0) /\ argv.intype = None /\ argv.classes = None
    /\ args.frac_int = 0 /\ args.intype = 2 /\ args.classes = 5

\* C2 (as claimed): a command line with no arguments ends with the help text
\* on the error stream and exit status 1.
C2_ZeroArgsHelpExit1 ==
    (entry = "cli" /\ NoArguments(argv) /\ pc = "exited") =>
      (exitStatus = Some(1) /\ stderrOut = "help")

\* C3: with nobias set, in either pipeline and also with N4 set, biascorr is
\* never called, neither `fast -b -B` nor N4 is spawned, and every brain
\* extraction of the run is given the unmodified input image.
C3_NoBiasNeverCorrects ==
    (Dispatched /\ args.nobias) =>
      /\ \A i \in DOMAIN calls : calls[i].fn # "biascorr"
      /\ \A i \in DOMAIN cmds : ~BiasCmd(cmds[i])
      /\ \A i \in DOMAIN calls : calls[i].fn = "bet" => calls[i].image = args.image
      /\ \A i \in DOMAIN cmds : cmds[i].exe = "bet" => cmds[i].image = args.image

C3_Witness ==
    /\ args.nobias /\ args.N4 /\ args.neonate
    /\ pc = "neo_atlas"
    /\ \E i \in DOMAIN cmds : cmds[i].exe = "bet" /\ cmds[i].image = Image

RoughMask == Join(TmpDirOf(OutDir), << "brain", "_mask" >> \o NiiGz)

\* C4: with N4 set and nobias unset the FSL bias command (`fast -b -B`) is
\* never spawned; and when neither N4BiasFieldCorrection nor N4 is resolvable
\* no N4 command is spawned, the run never gets past the bias step, and once
\* the rough brain extraction that precedes the probe has succeeded the run
\* has failed with a DependencyError naming N4BiasFieldCorrection (before
\* that, only the input validation or that brain extraction can end the run).
C4_N4RouteAndDependency ==
    (Dispatched /\ args.N4 /\ ~args.nobias) =>
      /\ \A i \in DOMAIN cmds : ~(cmds[i].exe = "fast" /\ cmds[i].bias)
      /\ (Range(N4Names) \cap installed = {}) =>
           /\ \A i \in DOMAIN cmds : cmds[i].exe \notin Range(N4Names)
           /\ pc \in { "segmentation", "seg_bias", "neo_bias", "failed" }
           /\ RoughMask \in files =>
                (pc = "failed" /\ err = Error("DependencyError",
                                              << "N4BiasFieldCorrection" >>))
           /\ pc = "failed" =>
                \/ err = Error("DependencyError", << "N4BiasFieldCorrection" >>)
                \/ err.what = args.image
                \/ err = Error("RuntimeError", << "bet" >>)

C4_Witness ==
    /\ args.N4 /\ ~args.nobias
    /\ Range(N4Names) \cap installed = {}
    /\ pc = "failed"
    /\ err = Error("DependencyError", << "N4BiasFieldCorrection" >>)
    /\ Exes(cmds) = << "bet" >>

Fns(cs) == [i \in DOMAIN cs |-> cs[i].fn]

Od(name) == Join(OutDir, name)

\* C5 (as claimed): the priors of the neonatal fast() call are the three
\* outputs of the applywarp calls, in the order CSF, GM, WM.
C5_WarpedPriors ==
    \A i \in DOMAIN calls :
      (args.neonate /\ calls[i].fn = "fast") =>
        calls[i].priors =
          << Od(NativeXfm(<< "nonlinear_tissue-", "csf" >> \o NiiGz)),
             Od(NativeXfm(<< "nonlinear_tissue-", "gm" >> \o NiiGz)),
             Od(NativeXfm(<< "nonlinear_tissue-", "wm" >> \o NiiGz)) >>

\* C6 (as claimed): when a neonatal run whose atlas directory and archive are
\* both absent ends in get_UNC_neonate_atlas, no external command has been
\* spawned in that run.
C6_NoToolBeforeAtlasFailure ==
    (/\ args.neonate /\ ~archive.present /\ unc_atlas_dir \notin files
     /\ pc = "failed"
     /\ calls # << >> /\ calls[Len(calls)].fn = "get_UNC_neonate_atlas")
      => cmds = << >>

\* C7 (as claimed): once get_UNC_neonate_atlas has returned after extracting
\* the archive into place, _neo_seg holds the five template paths.
C7_FirstUseReturnsPaths ==
    (depth > 0 /\ unc_atlas_dir \in files /\ pc # "neo_atlas")
      => loc.atlas = AtlasPaths

\* C8 (as claimed): no run extracts the archive more than once.
C8_AtMostOneExtraction ==
    Cardinality({ i \in DOMAIN cmds : cmds[i].exe = "tar" }) <= 1

\* The list fast() builds from the disk it leaves behind.
FastList(fs) ==
    Append(Sorted(GlobPve(Od(<< "fast_segmentation" >>), fs)),
           JoinPaths(Sorted(GlobMixel(Od(<< "fast_segmentation" >>), fs))))

Restored == Od(<< "anat", "_restore" >> \o NiiGz)

Brain == Od(<< "anat_brain" >> \o NiiGz)

\* C9: a generic run that succeeds has called, in this order and once each,
\* biascorr on the input image (unless nobias), bet with the mask requested on
\* the image the previous step left (the restored image, or the input with
\* nobias), and fast on the brain bet wrote; the commands were spawned in the
\* same order, and the value returned is the list fast() built.
C9_SegOrder ==
    (pc = "done" /\ ~args.neonate) =>
      LET n == Len(calls)
          bias == IF args.nobias THEN << >> ELSE << "biascorr" >>
          biasExes == IF args.nobias THEN << >>
                      ELSE IF args.N4 THEN << "bet", cmds[2].exe >>
                      ELSE << "fast" >>
          m == Len(cmds)
      IN  /\ Fns(calls) = bias \o << "bet", "fast" >>
          /\ ~args.nobias => (calls[1].image = args.image /\ calls[1].N4 = args.N4)
          /\ calls[n - 1].image = IF args.nobias THEN args.image ELSE Restored
          /\ calls[n - 1].mask
          /\ calls[n].images = << Brain >>
          /\ Exes(cmds) = biasExes \o << "bet", "fast" >>
          /\ ~args.nobias => BiasCmd(cmds[m - 2])
          /\ cmds[m - 1].image = calls[n - 1].image /\ cmds[m - 1].mask
          /\ cmds[m].images = << Brain >> /\ ~cmds[m].bias
          /\ { calls[n - 1].image, Brain } \subseteq files
          /\ ret = FastList(files)

C9_Witness ==
    /\ pc = "done" /\ ~args.neonate /\ ~args.nobias /\ args.N4
    /\ Len(calls) = 3 /\ ret # None

\* C10: a neonatal run that succeeds has called, in this order, biascorr
\* (unless nobias), bet, get_UNC_neonate_atlas, flirt (template brain to the
\* subject brain, 12 degrees of freedom, matrix requested), fnirt (full
\* template to the restored subject, initialised with the matrix flirt wrote,
\* field and coefficients requested), convertwarp on the field fnirt wrote,
\* applywarp of the converted warp to the GM, WM and CSF templates, fast and
\* the post-processing; the commands were spawned in that order too.
C10_NeoOrder ==
    (pc = "done" /\ args.neonate) =>
      LET k == IF args.nobias THEN 0 ELSE 1
          j == Len(cmds) - 10
          restore == IF args.nobias THEN args.image ELSE Restored
          cFlirt == calls[k + 3]
          cFnirt == calls[k + 4]
          cConv == calls[k + 5]
      IN  /\ Fns(calls) =
               (IF args.nobias THEN << >> ELSE << "biascorr" >>) \o
               << "bet", "get_UNC_neonate_atlas", "flirt", "fnirt", "convertwarp",
                  "applywarp", "applywarp", "applywarp", "fast", "post" >>
          /\ SubSeq(Exes(cmds), j + 1, j + 10) =
               << "bet", "flirt", "fnirt", "convertwarp", "applywarp",
                  "applywarp", "applywarp", "fast", "fslmaths", "fslmaths" >>
          /\ \A i \in 1 .. j : BiasCmd(cmds[i]) \/ cmds[i].image = args.image
          /\ (j > 0) = ~args.nobias
          /\ cFlirt.image = AtlasPaths[2] /\ cFlirt.ref = Brain
          /\ cFlirt.dof = 12 /\ cFlirt.omat = OmatTrue
          /\ cmds[j + 2].omat # None
          /\ cFnirt.image = AtlasPaths[1] /\ cFnirt.ref = restore
          /\ cFnirt.aff = cmds[j + 2].omat /\ cmds[j + 3].aff = cmds[j + 2].omat
          /\ cFnirt.fout /\ cFnirt.cout
          /\ cmds[j + 3].fout # None /\ cmds[j + 3].cout # None
          /\ cConv.warp = cmds[j + 3].fout /\ cmds[j + 4].warp = cmds[j + 3].fout
          /\ cConv.rel
          /\ \A i \in 1 .. 3 :
               /\ calls[k + 5 + i].warp = cmds[j + 4].out
               /\ calls[k + 5 + i].image = AtlasPaths[2 + i]
               /\ cmds[j + 4 + i].warp = cmds[j + 4].out
               /\ cmds[j + 4 + i].image = AtlasPaths[2 + i]
          /\ calls[k + 9].images = << Brain >>

C10_Witness ==
    /\ pc = "done" /\ args.neonate /\ ~args.nobias
    /\ Len(calls) = 11 /\ Len(ret) = 4

FastOut == Od(<< "fast_segmentation" >>)

Tissue(t) == Od(<< "fast_segmentation_space-native_tissue-", t >> \o NiiGz)

\* C11: a neonatal run that succeeds was handed six entries by fast(); entry
\* 0 has been renamed to ..._tissue-csf.nii.gz, the GM map is one fslmaths
\* command that mean-filters entry 3, the WM map is one fslmaths command that
\* adds entry 2 to entry 1 and then median-filters, entry 4 is read by no
\* command and is left where it was, and the value returned is
\* (CSF, GM, WM, entry 5).
C11_NeoPostOutputs ==
    (pc = "done" /\ args.neonate) =>
      LET e == loc.seg_list
          m == Len(cmds)
      IN  /\ Len(e) = 6
          /\ \A k \in 0 .. 4 : e[k + 1] = Pve(FastOut, k)
          /\ e[6] = FastOut \o << "_mixeltype" >> \o NiiGz
          /\ ret = << Tissue("csf"), Tissue("gm"), Tissue("wm"), e[6] >>
          /\ e[1] \notin files
          /\ { Tissue("csf"), Tissue("gm"), Tissue("wm"), e[5], e[6] } \subseteq files
          /\ cmds[m - 1] = [exe |-> "fslmaths", image |-> e[4],
                            ops |-> << Op("-fmean", None, None) >>,
                            out |-> Tissue("gm")]
          /\ cmds[m] = [exe |-> "fslmaths", image |-> e[2],
                        ops |-> << Op("-add", None, e[3]),
                                   Op("-fmedian", None, None) >>,
                        out |-> Tissue("wm")]
          /\ Cardinality({ i \in DOMAIN cmds : cmds[i].exe = "fslmaths" }) = 2

C11_Witness ==
    /\ pc = "done" /\ args.neonate /\ args.nobias
    /\ ret[2] = Tissue("gm") /\ Tissue("wm") \in files
    /\ cmds[Len(cmds)].exe = "fslmaths"

\* C12 (as claimed): after a neonatal run has succeeded, the post-processing
\* run once more on the same six paths succeeds again and returns and leaves
\* the same CSF, GM and WM files.
C12_PostIdempotent ==
    (pc = "done" /\ args.neonate) =>
      LET again == post(loc.seg_list, args.out, logSink, files, 0, 0)
      IN  /\ ~Failed(again)
          /\ again.ret = ret
          /\ { Tissue("csf"), Tissue("gm"), Tissue("wm") } \subseteq again.files

\* C13 (as claimed): the list a successful generic run returns holds as many
\* partial-volume files as the configured class count, whatever the output
\* directory held before the run.
C13_TissueMapCount ==
    (pc = "done" /\ ~args.neonate) =>
      Cardinality({ i \in DOMAIN ret : IsPrefix(FastOut \o << "_pve_" >>, ret[i]) })
        = args.classes

\* C14: an exception ends the run at the step that raised it.  The step that
\* fails was called once and is the last call of the run; from then on no
\* command is spawned, no call is made and the disk does not change; and the
\* failing step removes nothing that was on disk before it (the one path that
\* may be gone is entry 0 of the classifier, which the post-processing had
\* already renamed to the CSF output when a later part of it failed).
C14_FailureAborts ==
    [][ /\ err # NoErr =>
             /\ pc = "failed"
             /\ cmds' = cmds /\ calls' = calls /\ files' = files /\ err' = err
        /\ (err = NoErr /\ err' # NoErr) =>
             /\ pc' = "failed"
             /\ Len(calls') = Len(calls) + 1
             /\ SubSeq(cmds', 1, Len(cmds)) = cmds
             /\ \A f \in files :
                  \/ f \in files'
                  \/ f = Pve(FastOut, 0) /\ Tissue("csf") \in files'
      ]_vars

C14_Witness ==
    /\ pc = "failed" /\ args.neonate /\ ~args.nobias
    /\ err = Error("RuntimeError", << "fnirt" >>)
    /\ cmds[Len(cmds)].exe = "fnirt"
    /\ { Restored, Brain } \subseteq files

\* C15 (as claimed): no executable that is not resolvable is ever spawned, and
\* a run that ends on an executable that is not resolvable ends with a
\* DependencyError naming it.
C15_MissingDependencyNamed ==
    /\ \A i \in DOMAIN cmds : cmds[i].exe \in installed
    /\ (pc = "failed" /\ err.what # << >> /\ err.what[1] \in AllTools \ installed)
         => err.type = "DependencyError"

\* C16 (as claimed): on a command-line run that got past argument parsing the
\* output directory and anat_seg.log inside it exist, that file is the log
\* sink of the pipeline, and the commands logged to it are all the commands
\* the run has spawned, in order.
C16_AllInvocationsLogged ==
    (entry = "cli" /\ Dispatched) =>
      LET IsExe(line) == line \in AllTools
      IN  /\ { OutDir, Od(LogName) } \subseteq files
          /\ logSink.kind = "LogFile"
          /\ logSink.file = Od(LogName)
          /\ SelectSeq(logSink.lines, IsExe) = Exes(cmds)

\* The flag each fslmaths method puts on the command line.
FlagOf(fn) ==
    CASE fn = "thrP" -> "-thrP" [] fn = "thr" -> "-thr" [] fn = "mask" -> "-mas"
      [] fn = "ero" -> "-ero" [] fn = "fmean" -> "-fmean"
      [] fn = "fmedian" -> "-fmedian" [] fn = "add" -> "-add"
      [] fn = "sub" -> "-sub" [] fn = "mul" -> "-mul" [] fn = "div" -> "-div"

\* The operations a sequence of successful method calls is expected to leave
\* on the command line: one per call, in call order, the filters once per
\* repeat.
RECURSIVE ExpectedOps(_)
ExpectedOps(cs) ==
    IF cs = << >> THEN << >>
    ELSE LET c == Head(cs)
             flag == FlagOf(c.fn)
         IN  (IF c.fn \in { "ero", "fmean", "fmedian" }
              THEN [i \in 1 .. c.repeat |-> Op(flag, None, None)]
              ELSE << Op(flag, c.operand.num, c.operand.path) >>)
             \o ExpectedOps(Tail(cs))

\* C17: while an fslmaths object is constructed and chained nothing is
\* spawned and the object holds the operations in the order of the calls
\* (ero, fmean and fmedian once per repeat); a call that raises spawns
\* nothing either; run() spawns exactly one fslmaths command, whose
\* operations are those accumulated, in order, followed by the output path.
C17_MathsDeferred ==
    (entry = "wrap" /\ calls # << >> /\ calls[1].fn = "fslmaths") =>
      LET n == Len(calls)
          ran == calls[n].fn = "run"
      IN  /\ pc = "maths" =>
               /\ cmds = << >>
               /\ maths.image = Image
               /\ maths.ops = ExpectedOps(SubSeq(calls, 2, n))
          /\ (pc = "failed" /\ ~ran) => cmds = << >>
          /\ ran =>
               cmds = << [exe |-> "fslmaths", image |-> Image,
                          ops |-> ExpectedOps(SubSeq(calls, 2, n - 1)),
                          out |-> MathsOut] >>
          /\ ~ran => MathsOut \notin files

C17_Witness ==
    /\ entry = "wrap" /\ pc = "returned"
    /\ Fns(calls) = << "fslmaths", "fmean", "add", "run" >>
    /\ calls[2].repeat = 2 /\ calls[3].operand = Str(Image)
    /\ Len(cmds) = 1 /\ Len(cmds[1].ops) = 3
    /\ MathsOut \in files

\* C18 (as claimed): a thrP, thr, add, sub, mul or div call whose operand is
\* neither a number nor the path of a valid image ends in a TypeError, with
\* the accumulated operations as they were and nothing spawned.
C18_TypeErrorAtCall ==
    (entry = "wrap" /\ calls # << >>) =>
      LET n == Len(calls)
          c == calls[n]
          usable == \/ c.operand.kind = "num"
                    \/ c.operand.kind = "str" /\ NiiFile(c.operand.path, files) = NoErr
      IN  (c.fn \in { "thrP", "thr", "add", "sub", "mul", "div" } /\ ~usable) =>
            /\ pc = "failed"
            /\ err.type = "TypeError"
            /\ maths.ops = ExpectedOps(SubSeq(calls, 2, n - 1))
            /\ cmds = << >>

\* C19 (as claimed): when a flirt() call returns a matrix path, that path is
\* the one the flirt command was given through -omat, and a matrix path the
\* caller named is the one returned.
C19_OmatReturnedIsWritten ==
    (pc = "returned" /\ calls[1].fn = "flirt") =>
      /\ ret[2] # None => cmds[1].omat = ret[2]
      /\ calls[1].omat.kind = "path" => ret[2] = calls[1].omat.path

WarpTools == { "convertwarp", "applywarp" }

\* C20: every convertwarp and applywarp command carries one convention flag:
\* --rel when the call asked for rel (also when it asked for abs as well),
\* --abs otherwise; and in the neonatal pipeline the convertwarp call and the
\* applywarp calls all ask for the relative convention only, so all their
\* commands carry --rel.
C20_WarpConvention ==
    /\ \A i \in DOMAIN cmds :
         cmds[i].exe \in WarpTools => cmds[i].conv \in { "--rel", "--abs" }
    /\ (entry = "wrap" /\ cmds # << >> /\ cmds[1].exe \in WarpTools) =>
         /\ calls[1].fn = cmds[1].exe
         /\ cmds[1].conv = IF calls[1].rel THEN "--rel" ELSE "--abs"
    /\ entry # "wrap" =>
         /\ \A i \in DOMAIN cmds : cmds[i].exe \in WarpTools => cmds[i].conv = "--rel"
         /\ \A i \in DOMAIN calls :
              calls[i].fn \in WarpTools => (calls[i].rel /\ ~calls[i].abs)

C20_Witness ==
    /\ entry = "wrap" /\ pc = "returned"
    /\ calls[1].fn = "applywarp" /\ calls[1].rel /\ calls[1].abs
    /\ cmds[1].conv = "--rel"

\* C21 (as claimed): the list a fast() call returns has one entry per class
\* followed by one mixel-type entry: entry k is the partial-volume map of
\* class k, and the last entry is the path of a file that exists.
C21_FastListByClass ==
    (entry = "wrap" /\ pc = "returned" /\ calls[1].fn = "fast") =>
      LET c == calls[1]
      IN  /\ Len(ret) = c.classes + 1
          /\ \A k \in 0 .. (c.classes - 1) : ret[k + 1] = Pve(c.out, k)
          /\ ret[Len(ret)] \in files

\* The first call of the run was biascorr, and it returned normally.
BiasReturned ==
    /\ calls # << >>
    /\ calls[1].fn = "biascorr"
    /\ ~(pc = "failed" /\ Len(calls) = 1)

\* C22: once biascorr has returned normally, by either route, the paths it
\* returned are <prefix>_restore.nii.gz and <prefix>_bias_field.nii.gz, both
\* lie outside the scratch directory and exist, and nothing of the scratch
\* directory is left on disk.
C22_BiasOutputsOutlastScratch ==
    BiasReturned =>
      LET c == calls[1]
          prefix == rm_ext(c.out)
          td == TmpDirOf(DirOf(c.out))
          restore == prefix \o << "_restore" >> \o NiiGz
          biasfield == prefix \o << "_bias_field" >> \o NiiGz
      IN  /\ IF entry = "wrap" THEN pc = "returned" /\ ret = << restore, biasfield >>
                               ELSE loc.restore = restore
          /\ { restore, biasfield } \subseteq files
          /\ ~IsPrefix(td, restore) /\ ~IsPrefix(td, biasfield)
          /\ \A f \in files : ~IsPrefix(td, f)

C22_Witness ==
    /\ entry = "wrap" /\ pc = "returned"
    /\ calls[1].fn = "biascorr" /\ calls[1].N4
    /\ EndsWithNii(calls[1].out)
    /\ Len(cmds) = 2
    /\ ret[1] \in files

\* C23 (as claimed): whichever form the log argument takes, a neonatal run
\* never stops after the CSF map has been moved unless a tool failed: with
\* every tool succeeding it goes on to return the four paths.
C23_AnyLogFormCompletes ==
    (/\ Dispatched /\ args.neonate
     /\ pc = "failed"
     /\ calls[Len(calls)].fn = "post"
     /\ Tissue("csf") \in files
     /\ Pve(FastOut, 0) \notin files)
    => /\ logSink.kind = "LogFile"
       /\ err.type = "RuntimeError"

\* C24 (as claimed): a neonatal run asked for a class count other than five
\* never gets past the unpacking of fast()'s list: it stops there with a
\* ValueError, the classifier's maps all still in place and none of the three
\* final tissue files made. Stated for runs that log to a LogFile object.
C24_OtherClassCountsAbort ==
    (/\ Dispatched /\ args.neonate
     /\ logSink.kind = "LogFile"
     /\ args.classes # NeonateClasses
     /\ calls # << >> /\ calls[Len(calls)].fn = "post")
    => /\ pc = "failed" /\ err.type = "ValueError"
       /\ \A k \in 0 .. (args.classes - 1) : Pve(FastOut, k) \in files
       /\ { Tissue("csf"), Tissue("gm"), Tissue("wm") } \cap files = {}

\* Every path a command line names.
Operands(c) ==
    LET one(f) == IF f \in DOMAIN c THEN { c[f] } ELSE {}
        many(f) == IF f \in DOMAIN c THEN Range(c[f]) ELSE {}
    IN  (one("image") \cup one("ref") \cup one("out") \cup one("omat")
           \cup one("aff") \cup one("iout") \cup one("fout") \cup one("cout")
           \cup one("warp") \cup one("mask_in") \cup one("bias_out")
           \cup one("file") \cup many("images") \cup many("priors")
           \cup (IF "ops" \in DOMAIN c
                 THEN { c.ops[i].img : i \in DOMAIN c.ops } ELSE {}))
        \ { None }

\* The step the neonatal pipeline is about to take is built the same way
\* from the arguments a as from the run's own.
SameNextCall(a) ==
    CASE pc = "neo_bias" ->
           /\ SkipBias(a) = SkipBias(args)
           /\ NeoBiasCall(a) = NeoBiasCall(args)
      [] pc = "neo_bet" -> NeoBetCall(a, loc) = NeoBetCall(args, loc)
      [] pc = "neo_flirt" -> NeoFlirtCall(a, loc) = NeoFlirtCall(args, loc)
      [] pc = "neo_fnirt" -> NeoFnirtCall(a, loc) = NeoFnirtCall(args, loc)
      [] pc = "neo_convertwarp" ->
           NeoConvertwarpCall(a, loc) = NeoConvertwarpCall(args, loc)
      [] pc = "neo_applywarp" ->
           NeoApplywarpCall(a, loc) = NeoApplywarpCall(args, loc)
      [] pc = "neo_fast" -> NeoFastCall(a, loc) = NeoFastCall(args, loc)
      [] OTHER -> TRUE

\* C25: in a neonatal run the caller's priors play no part: no wrapper is
\* called with one, no command line names one, no exception is about one
\* (they are never validated, whether or not they exist), and every step is
\* the one the same run would take with no priors or with other priors.
C25_PriorsIgnoredForNeonates ==
    (Dispatched /\ args.neonate) =>
      /\ \A i \in DOMAIN calls :
           calls[i].fn = "fast" => Range(calls[i].priors) \cap Range(args.priors) = {}
      /\ \A i \in DOMAIN cmds : Operands(cmds[i]) \cap Range(args.priors) = {}
      /\ err.what \notin Range(args.priors)
      /\ \A p \in { None, UserPriors, << Image >> } :
           SameNextCall([args EXCEPT !.priors = p])

C25_Witness ==
    /\ args.neonate /\ pc = "done"
    /\ args.priors = UserPriors
    /\ Range(args.priors) \cap files = {}
    /\ \E i \in DOMAIN cmds : cmds[i].exe = "fast" /\ ~cmds[i].bias

\* The fixed names a run gives its intermediate files under the directory od.
Intermediates(od) ==
    { Join(od, << "anat", "_restore" >> \o NiiGz),
      Join(od, << "anat_brain" >> \o NiiGz) }
      \cup GlobPve(Join(od, << "fast_segmentation" >>), files)
      \cup GlobMixel(Join(od, << "fast_segmentation" >>), files)

\* C26: a run reads or lists a file the other run wrote only when both runs
\* were given the same output directory, and then the file is one of the
\* fixed intermediate names (the restored image, anat_brain, the
\* classifier's pve and mixel files); nothing keeps two runs from being
\* inside the same directory at once, so such runs do interfere.
C26_InterferenceThroughSharedDir ==
    \A i \in DOMAIN runs :
      runs[i].foreign # {} =>
        /\ runs[1].args.out = runs[2].args.out
        /\ runs[i].foreign \subseteq Intermediates(runs[i].args.out)

\* Run 1 has returned while run 2 is still classifying: its classifier read
\* the anat_brain image run 2 wrote, and the list it returned holds maps run 2
\* wrote.
C26_Witness ==
    /\ entry = "conc"
    /\ runs[1].pc = "done" /\ runs[2].pc = "seg_glob"
    /\ Join(OutDir, << "anat_brain" >> \o NiiGz) \in runs[1].foreign
    /\ \E k \in DOMAIN runs[1].ret :
         /\ runs[1].ret[k] \in DOMAIN writer
         /\ writer[runs[1].ret[k]] = 2
         /\ runs[1].ret[k] \in runs[1].foreign

====
